---- MODULE Spec2Model ----
(***************************************************************************)
(* A model of the secure-deletion object store (src/src/object_store.rs,   *)
(* src/src/fs.rs): objects stored as files of a FAT volume, every page     *)
(* encrypted with a ChaCha20 keystream keyed by the KHF key of its page    *)
(* id, and the three-slot rollover of the persisted KHF.                   *)
(*                                                                         *)
(* A stream cipher is modelled algebraically: a device cell holds a        *)
(* plaintext value and the set of keystream bytes XORed onto it; applying  *)
(* a keystream toggles membership (x XOR k XOR k = x), and a cell reads as *)
(* its plaintext exactly when that set is empty.                           *)
(***************************************************************************)
EXTENDS Integers, Sequences, FiniteSets, TLC

\* ------------------------------------------------------------ constants
PAGE_SIZE == 4096
RESERVED_PREFIX == 1024
NAME_LEN == 32

\* ------------------------------------------------------------ bounds
NumIds == 2
NumClusters == 2
UnitsPerPage == 2
MaxEpochs == 2
MaxInst == 2
MaxOps == 5
MaxNameOps == 6
MaxCrashOps == 2
MaxReuseOps == 5
MaxCrashes == 2
MaxConcOps == 4
KhfPages == 2

\* Object ids 15 ("...0f") and up: a hex letter and a carry into the next digit.
ObjIds == 15 .. (15 + NumIds - 1)
Clusters == 0 .. (NumClusters - 1)
Units == 0 .. (UnitsPerPage - 1)
Vals == 1 .. 2
UnitSize == PAGE_SIZE \div UnitsPerPage
MaxFileUnits == NumClusters * UnitsPerPage

Max(S) == CHOOSE x \in S : \A y \in S : y <= x
Min(S) == CHOOSE x \in S : \A y \in S : x <= y

\* ------------------------------------------------------------ object names
Pow16(k) == IF k = 0 THEN 1 ELSE IF k = 1 THEN 16 ELSE IF k = 2 THEN 256
            ELSE IF k = 3 THEN 4096 ELSE IF k = 4 THEN 65536
            ELSE IF k = 5 THEN 1048576 ELSE 16777216

\* The k-th hex digit of obj_id, counted from the least significant one.
HexDigit(obj_id, k) == IF k <= 6 THEN (obj_id \div Pow16(k)) % 16 ELSE 0

\* format!("{:0>32x}", obj_id): 32 hex digits, most significant first.
encode_obj_id(obj_id) == [i \in 1 .. NAME_LEN |-> HexDigit(obj_id, NAME_LEN - i)]

RECURSIVE ParseDigits(_, _)
\* The number the digits of name denote in the given radix.
ParseDigits(name, radix) ==
    IF name = << >> THEN 0
    ELSE radix * ParseDigits(SubSeq(name, 1, Len(name) - 1), radix) + name[Len(name)]

\* u128::from_str_radix(name, radix): the number, or -1 for Err when a character
\* is no digit of the radix.
from_str_radix(name, radix) ==
    IF \E j \in 1 .. Len(name) : name[j] >= radix THEN -1 ELSE ParseDigits(name, radix)

\* The file name parsed as a decimal number.
parse_name_decimal(name) == from_str_radix(name, 10)

\* u128::from_str_radix(&name, 16) in get_all_object_ids.
parse_name(name) == from_str_radix(name, 16)

\* The encoded name of every object id of the model.
NameOf == [i \in ObjIds |-> encode_obj_id(i)]

Names == {NameOf[i] : i \in ObjIds}

\* ------------------------------------------------------------ device layout
\* The device offset of cluster c: clusters are page-sized and start after the
\* reserved prefix.
ClusterOffset(c) == RESERVED_PREFIX + c * PAGE_SIZE

disk_offset_to_id(offset) == (offset - RESERVED_PREFIX) \div PAGE_SIZE

id_to_disk_offset(id) == id * PAGE_SIZE + RESERVED_PREFIX

DiskOffsets == {ClusterOffset(c) + u * UnitSize : c \in Clusters, u \in Units}

PageIds == Clusters

\* ------------------------------------------------------------ cipher
\* The cipher left at the start of its keystream: the seek forgotten.
cipher_not_seeked(disk_offset, key) ==
    [key |-> key, nonce |-> disk_offset_to_id(disk_offset), pos |-> 0]

\* ChaCha20::new(key, nonce) seeked to disk_offset - chunk_id.
get_symmetric_cipher_from_key(disk_offset, key) ==
    LET chunk_id == disk_offset_to_id(disk_offset)
    IN  [key |-> key, nonce |-> chunk_id, pos |-> disk_offset - chunk_id]

\* The keystream byte the cipher yields d bytes after its seek position.
Keystream(cipher, d) == <<cipher.key, cipher.nonce, cipher.pos + d>>

\* XOR of one keystream byte onto a cell.
Xor(cell, ks) ==
    [cell EXCEPT !.ks = IF ks \in @ THEN @ \ {ks} ELSE @ \cup {ks}]

ZeroCell == [pt |-> 0, ks |-> {}]
Plain(v) == [pt |-> v, ks |-> {}]

\* ------------------------------------------------------------ KHF
\* The key the forest of instance inst derives for page id at version ver.
KeyOf(k, id) == <<k.inst, id, k.ver[id]>>

NewKhf(inst) ==
    [inst |-> inst, ver |-> [p \in PageIds |-> 0], deleted |-> {}, gen |-> 0]

ZeroImage == [inst |-> 0, ver |-> [p \in PageIds |-> 0], deleted |-> {}, gen |-> 0]

\* KHF.delete(wal, id): marks id for rotation at the next update.
KhfDelete(k, id) == [k EXCEPT !.deleted = @ \cup {id}]

\* KHF.update(wal): rotates every key marked deleted; the pairs (id, old key).
KhfUpdated(k) == {<<id, KeyOf(k, id)>> : id \in k.deleted \cap PageIds}

RECURSIVE DeleteAll(_, _)
\* The KHF after delete was called for every id of the set S.
DeleteAll(k, S) ==
    IF S = {} THEN k ELSE LET id == Min(S) IN DeleteAll(KhfDelete(k, id), S \ {id})

KhfUpdate(k) ==
    [k EXCEPT !.ver = [p \in PageIds |-> IF p \in k.deleted THEN @[p] + 1 ELSE @[p]],
              !.deleted = {},
              !.gen = @ + 1]

\* ------------------------------------------------------------ file system
\* A file of the volume: its cluster chain and its size, counted in units.
EmptyFile == [clusters |-> << >>, size |-> 0]

\* The sub-directory made anew on every call: create_dir taken to truncate.
get_dir_path_truncating(dirs, encoded_obj_id) ==
    [x \in DOMAIN dirs \cup {encoded_obj_id[1]} |->
        IF x = encoded_obj_id[1] THEN [nm \in {} |-> EmptyFile] ELSE dirs[x]]

\* fs.root_dir().create_dir("ids")?.create_dir(&encoded_obj_id[0..1])?: the volume
\* with the sub-directory of the id's first hex digit created if it was missing.
get_dir_path(dirs, encoded_obj_id) ==
    LET sub == encoded_obj_id[1]
    IN  IF sub \in DOMAIN dirs THEN dirs
        ELSE [x \in DOMAIN dirs \cup {sub} |->
                 IF x = sub THEN [nm \in {} |-> EmptyFile] ELSE dirs[x]]

\* The directory dir with file name nm set to f.
PutFile(dir, nm, f) ==
    [x \in DOMAIN dir \cup {nm} |-> IF x = nm THEN f ELSE dir[x]]

\* The entry left in place: the removal forgotten.
remove_forgotten(dir, nm) == dir

\* The directory dir without file name nm.
RemoveFile(dir, nm) == [x \in DOMAIN dir \ {nm} |-> dir[x]]

UsedClusters(dirs) ==
    UNION {{dirs[d][nm].clusters[j] : j \in 1 .. Len(dirs[d][nm].clusters)} :
              <<d, nm>> \in {<<dd, n2>> \in (DOMAIN dirs) \X Names : n2 \in DOMAIN dirs[dd]}}

FreeClusters(dirs) == Clusters \ UsedClusters(dirs)

ClustersFor(size) == (size + UnitsPerPage - 1) \div UnitsPerPage

\* How the file system reports the space of a file: one extent for every maximal
\* run of clusters that follow each other on the device (TRUE), or one extent per
\* cluster (FALSE). It is a property of the file system the store is built on and
\* never changes.
VARIABLE coalesces

\* Cluster j of the chain does not continue the run of cluster j - 1.
RunStart(clusters, j) == j = 1 \/ clusters[j] # clusters[j - 1] + 1

\* The last cluster of the run that starts at cluster j of the chain.
RunEnd(clusters, j) ==
    CHOOSE e \in j .. Len(clusters) :
        /\ \A m \in (j + 1) .. e : ~RunStart(clusters, m)
        /\ e = Len(clusters) \/ RunStart(clusters, e + 1)

\* file.extents(): (offset, length) for every run of pages allocated to the file,
\* in file order, the last one cut at EOF.
extents(f) ==
    {[offset |-> ClusterOffset(f.clusters[j]),
      size |-> Min({(IF coalesces THEN RunEnd(f.clusters, j) ELSE j) * PAGE_SIZE,
                    f.size * UnitSize}) - (j - 1) * PAGE_SIZE] :
        j \in {m \in 1 .. Len(f.clusters) : ~coalesces \/ RunStart(f.clusters, m)}}

\* The device offset of logical unit L of a file with this cluster chain.
Phys(clusters, L) ==
    ClusterOffset(clusters[(L \div UnitsPerPage) + 1]) + (L % UnitsPerPage) * UnitSize

\* The logical unit at which the fragment holding unit L starts: the file system
\* hands the proxy one fragment per cluster, and the device may cut a fragment
\* short at any of the positions in cuts.
FragStart(off, cuts, L) ==
    Max({c \in off .. L : c = off \/ c \in cuts \/ c % UnitsPerPage = 0})

\* self.get_symmetric_cipher(disk_offset): the cipher under the key that
\* khf.derive_mut yields for the offset's page id.
get_symmetric_cipher(k, disk_offset) ==
    get_symmetric_cipher_from_key(disk_offset, KeyOf(k, disk_offset_to_id(disk_offset)))

\* The keystream byte applied to logical unit L of an access that starts at off.
UnitKeystream(k, clusters, off, cuts, L) ==
    LET start == Phys(clusters, FragStart(off, cuts, L))
    IN  Keystream(get_symmetric_cipher(k, start), Phys(clusters, L) - start)

\* The WAL entries derive_mut logs for the fragments of units off .. last.
DeriveLog(clusters, off, cuts, last) ==
    {<<"derive", disk_offset_to_id(Phys(clusters, FragStart(off, cuts, L)))>> :
        L \in off .. last}

\* What the read proxy returns for units off .. off+n-1: each cell of the device
\* with the keystream of its fragment applied.
ReadUnits(dsk, k, clusters, off, n, cuts) ==
    [j \in 1 .. n |->
        Xor(dsk[Phys(clusters, off + j - 1)],
            UnitKeystream(k, clusters, off, cuts, off + j - 1))]

\* The device after the write proxy wrote value v to units off .. off+n-1.
WriteUnits(dsk, k, clusters, off, n, cuts, v) ==
    [x \in DOMAIN dsk |->
        IF \E L \in off .. (off + n - 1) : Phys(clusters, L) = x
        THEN LET L == CHOOSE L \in off .. (off + n - 1) : Phys(clusters, L) = x
             IN  Xor(Plain(v), UnitKeystream(k, clusters, off, cuts, L))
        ELSE dsk[x]]

\* The injective sequences of need free clusters a write may be granted.
AllocChoices(free, need) ==
    {s \in [1 .. need -> free] : \A a, b \in 1 .. need : a # b => s[a] # s[b]}

\* The page ids under which write_all and read_exact derive keys for the device
\* offsets that back file f.
KeyPages(f) == {disk_offset_to_id(Phys(f.clusters, L)) : L \in 0 .. (f.size - 1)}

\* ------------------------------------------------------------ KHF slots
Absent == [present |-> FALSE, pages |-> << >>]

\* khf.persist(root_key, path, fs) run to completion.
Persisted(k) == [present |-> TRUE, pages |-> [p \in 1 .. KhfPages |-> k]]

\* MyKhf::load(root_key, "lethe/khf", fs) succeeds.
Loadable(file) ==
    /\ file.present
    /\ Len(file.pages) = KhfPages
    /\ \A p \in 1 .. KhfPages : file.pages[p] = file.pages[1] /\ file.pages[p].inst # 0

\* The extents of a KHF file: its pages follow each other on the device.
KhfExtents(file) ==
    IF coalesces THEN (IF Len(file.pages) > 0 THEN 1 ELSE 0) ELSE Len(file.pages)

\* What the blocks of a file hold when its entry is removed: the pages that are
\* not zero.
Residue(file) == {file.pages[p] : p \in 1 .. Len(file.pages)} \ {ZeroImage}

\* The file after n writes of one page of zeroes from its start.
Zeroed(file, n) ==
    [file EXCEPT !.pages = [p \in 1 .. Len(file.pages) |->
                               IF p <= n THEN ZeroImage ELSE file.pages[p]]]

\* wipe_old_khf_file: one zero page written per extent, then the entry removed.
wipe_old_khf_file(s) ==
    IF ~s.old.present THEN s
    ELSE [s EXCEPT !.old = Absent,
                   !.freed = @ \cup Residue(Zeroed(s.old, KhfExtents(s.old)))]

\* step_one as a copy: old/khf written and lethe/khf left where it is.
step_one_copies(r) ==
    IF ~r.ok \/ ~r.s.lethe.present THEN r ELSE [r EXCEPT !.s.old = r.s.lethe]

\* step_one left out: lethe/khf stays where it is.
step_one_skipped(r) == r

\* step_one of restore_khf: lethe/khf -> old/khf, NotFound tolerated.
step_one(r) ==
    IF ~r.ok THEN r
    ELSE IF ~r.s.lethe.present THEN r
    ELSE IF r.s.old.present THEN [r EXCEPT !.ok = FALSE]
    ELSE [r EXCEPT !.s = [@ EXCEPT !.old = r.s.lethe, !.lethe = Absent]]

\* The rename of step_two: tmp/khf -> lethe/khf, unwrapped.
rename_tmp_khf(r) ==
    IF ~r.ok THEN r
    ELSE IF ~r.s.tmp.present \/ r.s.lethe.present THEN [r EXCEPT !.ok = FALSE]
    ELSE [r EXCEPT !.s = [@ EXCEPT !.lethe = r.s.tmp, !.tmp = Absent]]

\* step_two without its wipe: old/khf left behind.
step_two_keeps_old(r) == rename_tmp_khf(r)

\* step_two of restore_khf: tmp/khf -> lethe/khf, then the wipe of old/khf.
step_two(r) ==
    LET r2 == rename_tmp_khf(r)
    IN  IF ~r2.ok THEN r2 ELSE [r2 EXCEPT !.s = wipe_old_khf_file(@)]

\* The rename of old/khf over whatever lethe/khf holds.
rename_old_overwrites(s) == [s EXCEPT !.lethe = s.old, !.old = Absent]

\* The rename old/khf -> lethe/khf of restore_khf: AlreadyExists leaves both files
\* as they are.
rename_old_khf(s) ==
    IF s.lethe.present THEN s ELSE [s EXCEPT !.lethe = s.old, !.old = Absent]

\* restore_khf left out: the slots as they are.
restore_skipped(s) == [s |-> s, ok |-> TRUE]

\* restore_khf run to completion on slots s: the slots it leaves, and ok = FALSE
\* when an unwrap in it panics.
restore_khf(s) ==
    LET r == [s |-> s, ok |-> TRUE]
    IN  IF s.tmp.present /\ s.old.present THEN step_two(r)
        ELSE IF ~s.tmp.present /\ s.old.present THEN
            IF rename_old_khf(s).old.present
            THEN [r EXCEPT !.s = wipe_old_khf_file(rename_old_khf(s))]
            ELSE [r EXCEPT !.s = rename_old_khf(s)]
        ELSE IF s.tmp.present /\ ~s.old.present THEN step_two(step_one(r))
        ELSE r

\* A new KHF whatever lethe/khf holds: the load forgotten.
open_khf_never_loads(s, fresh) == NewKhf(fresh)

\* Kms::open_khf: the KHF loaded from lethe/khf, or a new one when the load fails.
open_khf(s, fresh) == IF Loadable(s.lethe) THEN s.lethe.pages[1] ELSE NewKhf(fresh)

\* ------------------------------------------------------------ state
VARIABLES
    ids,        \* ids/<hex1>/<hex32>: sub-directory -> file name -> file
    disk,       \* device offset -> cell (plaintext value, keystream bytes XORed on)
    khf,        \* the in-memory KHF (kms.khf)
    wal,        \* the entries of lethe/wal
    slots,      \* the files lethe/khf, tmp/khf, old/khf, and freed: what the blocks
                \* of removed KHF files still hold
    alive,      \* FALSE once an assertion or unwrap has panicked
    ret,        \* the last operation and what it returned
    epochs,     \* advance_epoch calls that returned Ok
    insts,      \* KHF instances created by MyKhf::new()
    liveG,      \* history: ids created and not unlinked since
    shadow,     \* history: id -> the value last written to each unit, tagged "cur" (written
                \* since the last reopen), "old" (written before an advance_epoch that
                \* the reopen followed at once) or "lost" (anything else)
    erased,     \* history: the cells that backed an object when it was unlinked, with the
                \* plaintext they held; done once an advance_epoch has returned since
    left,       \* history: calls of public operations the run may still make
    phase,      \* history: "epoch" after advance_epoch, "durable" after a reopen that follows it
    pc,         \* crash model: the operation the process is in (idle, epoch, open or
                \* down), the step it is at and the pages done at that step
    crashes,    \* crash model: crashes so far
    persisted,  \* crash model: KHF generations whose persist completed
    thr,        \* thread model: each thread's operation, step and locals
    mutex       \* thread model: owner of the fs, khf and wal mutexes (0: free)

vars == <<ids, disk, khf, wal, slots, alive, ret, epochs, insts, liveG, shadow,
          erased, left, phase, pc, crashes, persisted, thr, mutex, coalesces>>

crashVars == <<pc, crashes, persisted>>
threadVars == <<thr, mutex>>
ghostVars == <<liveG, shadow, erased, phase>>

Threads == 1 .. 2

\* The process between two calls.
Idle == [op |-> "idle", at |-> "run", n |-> 0]

\* A thread outside every operation; mixed is a history field, set once a step of
\* another thread fell in the middle of an operation of this one; logged are the
\* page ids the unlink_object in progress has deleted, and lost is a history
\* field, set once an unlink_object removed a file with a page whose deletion it
\* had not logged.
IdleThread ==
    [op |-> "idle", step |-> "idle", stage |-> "", id |-> 0, todo |-> {},
     buf |-> << >>, mixed |-> FALSE, logged |-> {}, lost |-> FALSE]

NoDirs == [x \in {} |-> [nm \in {} |-> EmptyFile]]

Ret(op, id, res, val) == [op |-> op, id |-> id, res |-> res, off |-> 0, val |-> val]

\* A formatted volume with no object, and a store just opened on it.
InitVolume ==
    /\ ids = NoDirs
    /\ disk = [x \in DiskOffsets |-> ZeroCell]
    /\ khf = NewKhf(1)
    /\ wal = {}
    /\ coalesces \in BOOLEAN
    /\ alive = TRUE
    /\ ret = Ret("open", 0, "Ok", << >>)
    /\ epochs = 0
    /\ insts = 1
    /\ liveG = {}
    /\ shadow = [i \in ObjIds |-> << >>]
    /\ erased = {}
    /\ phase = "ops"

InitStore ==
    /\ InitVolume
    /\ slots = [lethe |-> Absent, tmp |-> Absent, old |-> Absent, freed |-> {}]

InitIdle ==
    /\ pc = Idle
    /\ crashes = 0
    /\ persisted = {}
    /\ thr = [t \in Threads |-> IdleThread]
    /\ mutex = [fs |-> 0, khf |-> 0, wal |-> 0]

Init == InitStore /\ InitIdle /\ left = MaxOps

\* The file of object i, looked up the way every operation does it.
Lookup(i) ==
    LET name == NameOf[i]
        dirs == get_dir_path(ids, name)
    IN  [dirs |-> dirs, name |-> name, sub |-> name[1],
         found |-> name \in DOMAIN dirs[name[1]]]

\* One more call of a public operation, while the run may make one.
Tick == pc = Idle /\ left > 0 /\ left' = left - 1

\* ------------------------------------------------------------ operations
\* create_object(obj_id)
CreateObject(i) ==
    /\ Tick
    /\ alive
    /\ LET l == Lookup(i)
       IN  IF l.found
           THEN /\ ids' = l.dirs
                /\ ret' = Ret("create_object", i, "Ok", <<FALSE>>)
           ELSE /\ ids' = [l.dirs EXCEPT ![l.sub] = PutFile(@, l.name, EmptyFile)]
                /\ ret' = Ret("create_object", i, "Ok", <<TRUE>>)
    /\ liveG' = liveG \cup {i}
    /\ shadow' = IF i \in liveG THEN shadow ELSE [shadow EXCEPT ![i] = << >>]
    /\ phase' = "ops"
    /\ UNCHANGED <<disk, khf, wal, slots, alive, epochs, insts, erased>>
    /\ UNCHANGED <<crashVars, threadVars, coalesces>>

\* disk_length(obj_id)
DiskLength(i) ==
    /\ Tick
    /\ alive
    /\ LET l == Lookup(i)
       IN  /\ ids' = l.dirs
           /\ ret' = IF l.found
                     THEN Ret("disk_length", i, "Ok", <<l.dirs[l.sub][l.name].size * UnitSize>>)
                     ELSE Ret("disk_length", i, "NotFound", << >>)
    /\ UNCHANGED <<disk, khf, wal, slots, alive, epochs, insts>>
    /\ UNCHANGED <<ghostVars, crashVars, threadVars, coalesces>>

\* get_all_object_ids()
GetAllObjectIds ==
    /\ Tick
    /\ alive
    /\ ret' = Ret("get_all_object_ids", 0, "Ok",
                  <<{parse_name(nm) :
                       nm \in {n2 \in UNION {DOMAIN ids[d] : d \in DOMAIN ids} :
                                  Len(n2) = NAME_LEN /\ parse_name(n2) >= 0}}>>)
    /\ UNCHANGED <<ids, disk, khf, wal, slots, alive, epochs, insts>>
    /\ UNCHANGED <<ghostVars, crashVars, threadVars, coalesces>>

\* read_exact(obj_id, buf, off) on an id without a file
ReadExactNotFound(i) ==
    /\ Tick
    /\ alive
    /\ ~Lookup(i).found
    /\ ids' = Lookup(i).dirs
    /\ ret' = Ret("read_exact", i, "NotFound", << >>)
    /\ UNCHANGED <<disk, khf, wal, slots, alive, epochs, insts>>
    /\ UNCHANGED <<ghostVars, crashVars, threadVars, coalesces>>

\* read_exact(obj_id, buf, off) with len(buf) = n units
ReadExact(i, off, n, cuts) ==
    /\ Tick
    /\ alive
    /\ Lookup(i).found
    /\ LET l == Lookup(i)
           f == l.dirs[l.sub][l.name]
       IN  /\ off <= f.size
           /\ ids' = l.dirs
           /\ IF off + n <= f.size
              THEN /\ ret' = [op |-> "read_exact", id |-> i, res |-> "Ok", off |-> off,
                              val |-> ReadUnits(disk, khf, f.clusters, off, n, cuts)]
                   /\ wal' = wal \cup DeriveLog(f.clusters, off, cuts, off + n - 1)
              ELSE /\ ret' = Ret("read_exact", i, "UnexpectedEof", << >>)
                   /\ wal' = wal \cup DeriveLog(f.clusters, off, cuts, f.size - 1)
    /\ UNCHANGED <<disk, khf, slots, alive, epochs, insts>>
    /\ UNCHANGED <<ghostVars, crashVars, threadVars, coalesces>>

\* write_all(obj_id, buf, off) on an id without a file
WriteAllNotFound(i) ==
    /\ Tick
    /\ alive
    /\ ~Lookup(i).found
    /\ ids' = Lookup(i).dirs
    /\ ret' = Ret("write_all", i, "NotFound", << >>)
    /\ UNCHANGED <<disk, khf, wal, slots, alive, epochs, insts>>
    /\ UNCHANGED <<ghostVars, crashVars, threadVars, coalesces>>

\* write_all(obj_id, buf, off) with buf = n units of value v; alloc are the
\* clusters the file system grants when the write extends the file.
WriteAll(i, off, n, v, cuts, alloc) ==
    /\ Tick
    /\ alive
    /\ Lookup(i).found
    /\ LET l == Lookup(i)
           f == l.dirs[l.sub][l.name]
           size2 == Max({f.size, off + n})
           g == [clusters |-> f.clusters \o alloc, size |-> size2]
           asserted == extents(f) \ extents(g) = {}
           written == {Phys(g.clusters, L) : L \in off .. (off + n - 1)}
       IN  /\ off <= f.size
           /\ off + n <= MaxFileUnits
           /\ Len(alloc) = ClustersFor(size2) - Len(f.clusters)
           /\ ids' = [l.dirs EXCEPT ![l.sub] = PutFile(@, l.name, g)]
           /\ disk' = WriteUnits(disk, khf, g.clusters, off, n, cuts, v)
           /\ wal' = wal \cup DeriveLog(g.clusters, off, cuts, off + n - 1)
           /\ alive' = asserted
           /\ ret' = [op |-> "write_all", id |-> i, off |-> off, val |-> [j \in 1 .. n |-> Plain(v)],
                      res |-> IF asserted THEN "Ok" ELSE "panic"]
           /\ shadow' = [shadow EXCEPT ![i] =
                            [j \in 1 .. Max({Len(@), off + n}) |->
                                IF j - 1 \in off .. (off + n - 1)
                                THEN [v |-> v, tag |-> IF asserted THEN "cur" ELSE "lost"]
                                ELSE @[j]]]
           /\ erased' = {e \in erased : e.x \notin written}
    /\ phase' = "ops"
    /\ UNCHANGED <<khf, slots, epochs, insts, liveG>>
    /\ UNCHANGED <<crashVars, threadVars, coalesces>>

\* unlink_object(obj_id) on an id without a file
UnlinkObjectNotFound(i) ==
    /\ Tick
    /\ alive
    /\ ~Lookup(i).found
    /\ ids' = Lookup(i).dirs
    /\ ret' = Ret("unlink_object", i, "NotFound", << >>)
    /\ liveG' = liveG \ {i}
    /\ phase' = "ops"
    /\ UNCHANGED <<disk, khf, wal, slots, alive, epochs, insts, shadow, erased>>
    /\ UNCHANGED <<crashVars, threadVars, coalesces>>

\* The page id unlink_object deletes for an extent.
UnlinkPageId(extent) == extent.offset \div PAGE_SIZE

\* unlink_object(obj_id)
UnlinkObject(i) ==
    /\ Tick
    /\ alive
    /\ Lookup(i).found
    /\ LET l == Lookup(i)
           f == l.dirs[l.sub][l.name]
           deleted == {UnlinkPageId(e) : e \in extents(f)}
       IN  /\ khf' = DeleteAll(khf, deleted)
           /\ wal' = wal \cup {<<"delete", id>> : id \in deleted}
           /\ ids' = [l.dirs EXCEPT ![l.sub] = RemoveFile(@, l.name)]
           /\ erased' = erased \cup
                  {[id |-> i, x |-> Phys(f.clusters, L), pt |-> disk[Phys(f.clusters, L)].pt,
                    done |-> FALSE] : L \in 0 .. (f.size - 1)}
    /\ ret' = Ret("unlink_object", i, "Ok", << >>)
    /\ liveG' = liveG \ {i}
    /\ shadow' = [shadow EXCEPT ![i] = << >>]
    /\ phase' = "ops"
    /\ UNCHANGED <<disk, slots, alive, epochs, insts>>
    /\ UNCHANGED <<crashVars, threadVars, coalesces>>

\* The device offsets of the page of id.
PageOffsets(id) ==
    {x \in DiskOffsets : x >= id_to_disk_offset(id) /\ x < id_to_disk_offset(id) + PAGE_SIZE}

\* advance_epoch: the page of id read from the device into buf and the old key's
\* keystream applied to it.
PageBuffer(dsk, id, key) ==
    LET old == get_symmetric_cipher_from_key(id_to_disk_offset(id), key)
    IN  [x \in PageOffsets(id) |-> Xor(dsk[x], Keystream(old, x - id_to_disk_offset(id)))]

\* buf as it is: the keystream of the new key not applied.
not_reencrypted(buf, k, id) == buf

\* advance_epoch: the keystream of the key that KHF k derives now applied to buf.
Reencrypted(buf, k, id) ==
    LET new == get_symmetric_cipher(k, id_to_disk_offset(id))
    IN  [x \in DOMAIN buf |-> Xor(buf[x], Keystream(new, x - id_to_disk_offset(id)))]

\* advance_epoch: buf written to the page of id.
WritePage(dsk, id, buf) == [x \in DOMAIN dsk |-> IF x \in DOMAIN buf THEN buf[x] ELSE dsk[x]]

\* One pass of advance_epoch's loop: the page of id read from the device, the old
\* key's keystream applied, then the new key's, and the page written back.
RewritePage(dsk, k, id, key) == WritePage(dsk, id, Reencrypted(PageBuffer(dsk, id, key), k, id))

RECURSIVE RewriteAll(_, _, _)
\* advance_epoch's loop over updated_keys.
RewriteAll(dsk, k, updated) ==
    IF updated = {} THEN dsk
    ELSE LET u == CHOOSE u \in updated : \A w \in updated : u[1] <= w[1]
         IN  RewriteAll(RewritePage(dsk, k, u[1], u[2]), k, updated \ {u})

\* advance_epoch(), run without interruption
AdvanceEpoch ==
    /\ Tick
    /\ alive
    /\ epochs < MaxEpochs
    /\ LET k == KhfUpdate(khf)
           updated == KhfUpdated(khf)
           staged == [slots EXCEPT !.tmp = Persisted(k)]
           r == restore_khf(wipe_old_khf_file(staged))
       IN  /\ khf' = k
           /\ disk' = RewriteAll(disk, k, updated)
           /\ slots' = r.s
           /\ alive' = r.ok
           /\ wal' = IF r.ok THEN {} ELSE wal \cup {<<"derive", u[1]>> : u \in updated}
           /\ ret' = Ret("advance_epoch", 0, IF r.ok THEN "Ok" ELSE "panic", << >>)
           /\ epochs' = IF r.ok THEN epochs + 1 ELSE epochs
           /\ erased' = IF r.ok THEN {[e EXCEPT !.done = TRUE] : e \in erased} ELSE erased
           /\ phase' = IF r.ok THEN "epoch" ELSE "ops"
    /\ UNCHANGED <<ids, insts, liveG, shadow>>
    /\ UNCHANGED <<crashVars, threadVars, coalesces>>

\* reopen(), or a restart of the process and open(): restore_khf, then Kms::open.
Reopen ==
    /\ Tick
    /\ LET r == restore_khf(slots)
       IN  /\ Loadable(r.s.lethe) \/ insts < MaxInst
           /\ slots' = r.s
           /\ alive' = r.ok
           /\ khf' = IF r.ok THEN open_khf(r.s, insts + 1) ELSE khf
           /\ insts' = IF r.ok /\ ~Loadable(r.s.lethe) THEN insts + 1 ELSE insts
           /\ ret' = Ret("reopen", 0, IF r.ok THEN "Ok" ELSE "panic", << >>)
    /\ shadow' = [i \in ObjIds |-> [j \in 1 .. Len(shadow[i]) |->
                     [shadow[i][j] EXCEPT !.tag =
                         IF phase = "epoch" /\ @ # "lost" THEN "old" ELSE "lost"]]]
    /\ phase' = IF phase = "epoch" THEN "durable" ELSE "ops"
    /\ UNCHANGED <<ids, disk, wal, epochs, liveG, erased>>
    /\ UNCHANGED <<crashVars, threadVars, coalesces>>

\* The places where the device may cut the access short: none, or one.
Cuts(off, n) == {{}} \cup {{c} : c \in (off + 1) .. (off + n - 1)}

\* The size of object i's file, -1 when it has none.
SizeOf(i) ==
    LET l == Lookup(i) IN IF l.found THEN l.dirs[l.sub][l.name].size ELSE -1

\* The clusters a write of units off .. off+n-1 to object i must be granted.
Need(i, off, n) ==
    LET f == Lookup(i).dirs[NameOf[i][1]][NameOf[i]]
    IN  ClustersFor(Max({f.size, off + n})) - Len(f.clusters)

\* read_exact over the ranges that end at EOF or one unit past it.
SomeRead ==
    \E i \in ObjIds : \E off \in 0 .. SizeOf(i) :
       \E n \in {SizeOf(i) - off, SizeOf(i) - off + 1} :
          \E cuts \in Cuts(off, n) : n >= 1 /\ ReadExact(i, off, n, cuts)

\* write_all over every range inside the model's file size.
SomeWrite ==
    \E i \in ObjIds : \E off \in 0 .. SizeOf(i) : \E n \in 1 .. (MaxFileUnits - off) :
       \E v \in Vals, cuts \in Cuts(off, n) :
          \E alloc \in AllocChoices(FreeClusters(ids), Need(i, off, n)) :
             WriteAll(i, off, n, v, cuts, alloc)

\* One call of a public operation on objects that exist.
Call ==
    \/ \E i \in ObjIds : CreateObject(i)
    \/ SomeRead
    \/ SomeWrite
    \/ \E i \in ObjIds : UnlinkObject(i)
    \/ AdvanceEpoch
    \/ Reopen

Next == Call

Spec == Init /\ [][Next]_vars

\* ------------------------------------------------------------ the namespace
\* read_exact of one unit of an object that has a file.
NameRead ==
    \E i \in ObjIds : \E off \in 0 .. SizeOf(i) : ReadExact(i, off, 1, {})

\* write_all of one unit to an object that has a file.
NameWrite ==
    \E i \in ObjIds : \E off \in 0 .. Min({SizeOf(i), MaxFileUnits - 1}) :
       \E alloc \in AllocChoices(FreeClusters(ids), Need(i, off, 1)) :
          WriteAll(i, off, 1, 1, {}, alloc)

InitNames == InitStore /\ InitIdle /\ left = MaxNameOps

\* One call of a public operation on any id, with or without a file.
NextNames ==
    \/ \E i \in ObjIds : CreateObject(i)
    \/ \E i \in ObjIds : DiskLength(i)
    \/ GetAllObjectIds
    \/ \E i \in ObjIds : ReadExactNotFound(i)
    \/ \E i \in ObjIds : WriteAllNotFound(i)
    \/ \E i \in ObjIds : UnlinkObjectNotFound(i)
    \/ \E i \in ObjIds : UnlinkObject(i)
    \/ NameRead
    \/ NameWrite
    \/ AdvanceEpoch
    \/ Reopen

SpecNames == InitNames /\ [][NextNames]_vars

\* ------------------------------------------------------------ crashes
\* The process at step at of operation op.
At(op, at) == pc.op = op /\ pc.at = at
Goto(op, at) == [op |-> op, at |-> at, n |-> 0]

\* What no step of the KHF rollover changes.
rolloverFrame ==
    <<ids, disk, alive, ret, insts, left, liveG, shadow, phase, crashes, thr, mutex, coalesces>>

\* advance_epoch up to the persist: khf.update, the loop over updated_keys, and the
\* two create_dir calls.
EpochUpdate ==
    /\ pc = Idle /\ alive
    /\ epochs < MaxEpochs
    /\ khf' = KhfUpdate(khf)
    /\ disk' = RewriteAll(disk, KhfUpdate(khf), KhfUpdated(khf))
    /\ wal' = wal \cup {<<"derive", u[1]>> : u \in KhfUpdated(khf)}
    /\ pc' = Goto("epoch", "persist")
    /\ UNCHANGED <<ids, slots, alive, ret, epochs, insts, left, crashes, persisted>>
    /\ UNCHANGED <<ghostVars, threadVars, coalesces>>

\* khf.persist(root_key, "tmp/khf", &fs): the file created empty.
PersistCreate ==
    /\ At("epoch", "persist")
    /\ slots' = [slots EXCEPT !.tmp = [present |-> TRUE, pages |-> << >>]]
    /\ pc' = Goto("epoch", "persist_write")
    /\ UNCHANGED <<khf, wal, epochs, erased, persisted>>
    /\ UNCHANGED rolloverFrame

\* khf.persist: the next page of the sealed KHF written to tmp/khf.
PersistWrite ==
    /\ At("epoch", "persist_write")
    /\ slots' = [slots EXCEPT !.tmp.pages = Append(@, khf)]
    /\ IF pc.n + 1 = KhfPages
       THEN pc' = Goto("epoch", "prewipe") /\ persisted' = persisted \cup {khf}
       ELSE pc' = [pc EXCEPT !.n = @ + 1] /\ persisted' = persisted
    /\ UNCHANGED <<khf, wal, epochs, erased>>
    /\ UNCHANGED rolloverFrame

\* Where the process goes when restore_khf returns.
AfterRestore == IF pc.op = "epoch" THEN Goto("epoch", "clear") ELSE Goto("open", "kms")

\* advance_epoch going from its first wipe straight to the clearing of the WAL.
wipe_then_clear == IF pc.op = "epoch" THEN Goto("epoch", "clear") ELSE AfterRestore

\* Where the process goes when wipe_old_khf_file returns.
AfterWipe == IF pc.at = "prewipe" THEN Goto(pc.op, "match") ELSE AfterRestore

\* The process dead of a failed unwrap.
Panicked == [op |-> "down", at |-> "panic", n |-> 0]

\* wipe_old_khf_file: old/khf is not there.
WipeNotFound ==
    /\ pc.at \in {"prewipe", "wipe"}
    /\ ~slots.old.present
    /\ pc' = AfterWipe
    /\ UNCHANGED <<khf, wal, slots, epochs, erased, persisted>>
    /\ UNCHANGED rolloverFrame

\* wipe_old_khf_file: one more page of zeroes written over old/khf.
WipeZero ==
    /\ pc.at \in {"prewipe", "wipe"}
    /\ slots.old.present /\ pc.n < KhfExtents(slots.old)
    /\ slots' = [slots EXCEPT !.old = Zeroed(@, pc.n + 1)]
    /\ pc' = [pc EXCEPT !.n = @ + 1]
    /\ UNCHANGED <<khf, wal, epochs, erased, persisted>>
    /\ UNCHANGED rolloverFrame

\* wipe_old_khf_file: the entry old/khf removed.
WipeRemove ==
    /\ pc.at \in {"prewipe", "wipe"}
    /\ slots.old.present /\ pc.n = KhfExtents(slots.old)
    /\ slots' = [slots EXCEPT !.old = Absent, !.freed = @ \cup Residue(slots.old)]
    /\ pc' = AfterWipe
    /\ UNCHANGED <<khf, wal, epochs, erased, persisted>>
    /\ UNCHANGED rolloverFrame

\* restore_khf: tmp/khf and old/khf opened and matched.
RestoreMatch ==
    /\ pc.at = "match"
    /\ pc' = IF slots.tmp.present /\ slots.old.present THEN Goto(pc.op, "two")
             ELSE IF slots.old.present THEN Goto(pc.op, "promote")
             ELSE IF slots.tmp.present THEN Goto(pc.op, "one")
             ELSE AfterRestore
    /\ UNCHANGED <<khf, wal, slots, epochs, erased, persisted>>
    /\ UNCHANGED rolloverFrame

\* restore_khf, step_one.
StepOne ==
    /\ pc.at = "one"
    /\ LET r == step_one([s |-> slots, ok |-> TRUE])
       IN  /\ slots' = r.s
           /\ pc' = IF r.ok THEN Goto(pc.op, "two") ELSE Panicked
    /\ UNCHANGED <<khf, wal, epochs, erased, persisted>>
    /\ UNCHANGED rolloverFrame

\* restore_khf, the rename of step_two.
StepTwoRename ==
    /\ pc.at = "two"
    /\ LET r == rename_tmp_khf([s |-> slots, ok |-> TRUE])
       IN  /\ slots' = r.s
           /\ pc' = IF r.ok THEN Goto(pc.op, "wipe") ELSE Panicked
    /\ UNCHANGED <<khf, wal, epochs, erased, persisted>>
    /\ UNCHANGED rolloverFrame

\* restore_khf with old/khf alone: old/khf -> lethe/khf, or the wipe when
\* lethe/khf already exists.
Promote ==
    /\ pc.at = "promote"
    /\ IF ~slots.old.present THEN slots' = slots /\ pc' = Panicked
       ELSE /\ slots' = rename_old_khf(slots)
            /\ pc' = IF rename_old_khf(slots).old.present THEN Goto(pc.op, "wipe")
                     ELSE AfterRestore
    /\ UNCHANGED <<khf, wal, epochs, erased, persisted>>
    /\ UNCHANGED rolloverFrame

\* advance_epoch: kms.wal_lock().clear() and Ok(()).
WalClear ==
    /\ At("epoch", "clear")
    /\ wal' = {}
    /\ epochs' = epochs + 1
    /\ erased' = {[e EXCEPT !.done = TRUE] : e \in erased}
    /\ ret' = Ret("advance_epoch", 0, "Ok", << >>)
    /\ phase' = "epoch"
    /\ pc' = Idle
    /\ UNCHANGED <<ids, disk, khf, slots, alive, insts, left, liveG, shadow>>
    /\ UNCHANGED <<crashes, persisted, threadVars, coalesces>>

\* The process dies: a crash or a power loss at any step.
Crash ==
    /\ pc.op # "down"
    /\ crashes < MaxCrashes
    /\ crashes' = crashes + 1
    /\ pc' = Goto("down", "crashed")
    /\ UNCHANGED <<ids, disk, khf, wal, slots, alive, ret, epochs, insts, left, persisted>>
    /\ UNCHANGED <<ghostVars, threadVars, coalesces>>

\* The process started again: ObjectStore::open up to restore_khf.
Restart ==
    /\ pc.op = "down"
    /\ pc' = Goto("open", "match")
    /\ UNCHANGED <<ids, disk, khf, wal, slots, alive, ret, epochs, insts, left>>
    /\ UNCHANGED <<crashes, persisted, ghostVars, threadVars, coalesces>>

\* ObjectStore::open after restore_khf: Kms::open.
OpenKms ==
    /\ At("open", "kms")
    /\ Loadable(slots.lethe) \/ insts < MaxInst
    /\ khf' = open_khf(slots, insts + 1)
    /\ insts' = IF Loadable(slots.lethe) THEN insts ELSE insts + 1
    /\ alive' = TRUE
    /\ ret' = Ret("open", 0, "Ok", << >>)
    /\ shadow' = [i \in ObjIds |-> [j \in 1 .. Len(shadow[i]) |->
                     [shadow[i][j] EXCEPT !.tag = "lost"]]]
    /\ phase' = "ops"
    /\ pc' = Idle
    /\ UNCHANGED <<ids, disk, wal, slots, epochs, left, liveG, erased>>
    /\ UNCHANGED <<crashes, persisted, threadVars, coalesces>>

InitCrash == InitStore /\ InitIdle /\ left = MaxCrashOps

\* One step of the process, or its death.
NextCrash ==
    \/ \E i \in ObjIds : CreateObject(i)
    \/ NameWrite
    \/ \E i \in ObjIds : UnlinkObject(i)
    \/ EpochUpdate
    \/ PersistCreate
    \/ PersistWrite
    \/ WipeNotFound
    \/ WipeZero
    \/ WipeRemove
    \/ RestoreMatch
    \/ StepOne
    \/ StepTwoRename
    \/ Promote
    \/ WalClear
    \/ Crash
    \/ Restart
    \/ OpenKms

SpecCrash == InitCrash /\ [][NextCrash]_vars

\* The crash model with room for a page to be written, freed, given to the next
\* object and written again before the rollover that the crash interrupts.
InitCrashReuse == InitStore /\ InitIdle /\ left = MaxReuseOps

SpecCrashReuse == InitCrashReuse /\ [][NextCrash]_vars

\* ------------------------------------------------------------ recovery on any image
\* What a KHF slot of a device image handed to ObjectStore::open may hold: nothing,
\* a complete KHF of one of two generations, or a file cut short.
SlotFiles ==
    {Absent, Persisted(NewKhf(1)), Persisted(KhfUpdate(NewKhf(1))),
     [present |-> TRUE, pages |-> <<KhfUpdate(NewKhf(1))>>]}

\* ObjectStore::open called on a device image with any content of the three slots,
\* about to run restore_khf.
InitRestore ==
    /\ InitVolume
    /\ \E l, m, o \in SlotFiles : slots = [lethe |-> l, tmp |-> m, old |-> o, freed |-> {}]
    /\ pc = Goto("open", "match")
    /\ crashes = 0
    /\ persisted = {}
    /\ thr = [t \in Threads |-> IdleThread]
    /\ mutex = [fs |-> 0, khf |-> 0, wal |-> 0]
    /\ left = 0

\* One step of restore_khf and of the open that follows it.
NextRestore ==
    \/ RestoreMatch
    \/ StepOne
    \/ StepTwoRename
    \/ Promote
    \/ WipeNotFound
    \/ WipeZero
    \/ WipeRemove
    \/ OpenKms

SpecRestore == InitRestore /\ [][NextRestore]_vars

\* ------------------------------------------------------------ threads
\* Thread t is between unlink_object's collection of the extents of id and its
\* removal of the file.
MidUnlink(t, id) ==
    /\ thr[t].op = "unlink_object" /\ thr[t].id = id
    /\ thr[t].step \in {"khf", "wal", "io", "remove"}

\* Thread t is between advance_epoch's read of a page from the device and its
\* write of the page.
MidPage(t) ==
    /\ thr[t].op = "advance_epoch" /\ thr[t].stage = "page"
    /\ thr[t].step \in {"khf", "wal", "io", "page_write"}

\* The threads after a file-system step of operation op on id by thread t: history
\* field mixed set for every other thread the step falls in the middle of.
Mark(t, op, id) ==
    [u \in Threads |->
        IF u # t /\ (MidPage(u) \/ (op = "write_all" /\ MidUnlink(u, id)))
        THEN [thr[u] EXCEPT !.mixed = TRUE] ELSE thr[u]]

\* Thread t back from its operation.
Return(threads, t) ==
    [threads EXCEPT ![t] = [IdleThread EXCEPT !.mixed = threads[t].mixed,
                                              !.lost = threads[t].lost]]

\* What the thread model does not keep.
concFrame == <<ghostVars, crashVars, insts, coalesces>>

\* A thread calls a public operation.
Begin(t) ==
    /\ Tick /\ alive
    /\ thr[t].op = "idle"
    /\ \E op \in {"create_object", "write_all", "read_exact", "unlink_object", "advance_epoch"} :
       \E i \in ObjIds :
          /\ op = "advance_epoch" => (i = Min(ObjIds) /\ epochs < MaxEpochs)
          /\ thr' = [thr EXCEPT ![t] =
                [IdleThread EXCEPT !.op = op, !.id = IF op = "advance_epoch" THEN 0 ELSE i,
                                   !.step = IF op = "advance_epoch" THEN "khf" ELSE "fs",
                                   !.stage = IF op = "advance_epoch" THEN "update" ELSE "",
                                   !.mixed = thr[t].mixed]]
    /\ UNCHANGED <<ids, disk, khf, wal, slots, alive, ret, epochs, mutex>>
    /\ UNCHANGED concFrame

\* create_object under the file-system mutex.
ThreadCreate(t) ==
    /\ alive /\ thr[t].op = "create_object" /\ thr[t].step = "fs"
    /\ mutex.fs = 0
    /\ LET i == thr[t].id
           l == Lookup(i)
       IN  /\ ids' = IF l.found THEN l.dirs
                     ELSE [l.dirs EXCEPT ![l.sub] = PutFile(@, l.name, EmptyFile)]
           /\ ret' = Ret("create_object", i, "Ok", <<~l.found>>)
           /\ thr' = Return(Mark(t, "create_object", i), t)
    /\ UNCHANGED <<disk, khf, wal, slots, alive, epochs, left, mutex>>
    /\ UNCHANGED concFrame

\* write_all and read_exact: self.fs().lock() and the open of the file, up to the
\* first call of the device callback; a read of an empty file makes none.
ThreadOpen(t) ==
    /\ alive /\ thr[t].op \in {"write_all", "read_exact"} /\ thr[t].step = "fs"
    /\ mutex.fs = 0
    /\ LET i == thr[t].id
           l == Lookup(i)
       IN  /\ ids' = l.dirs
           /\ IF l.found /\ (thr[t].op = "write_all" \/ l.dirs[l.sub][l.name].size > 0)
              THEN /\ mutex' = [mutex EXCEPT !.fs = t]
                   /\ thr' = [thr EXCEPT ![t].step = "khf"]
                   /\ ret' = ret
              ELSE /\ mutex' = mutex
                   /\ thr' = Return(Mark(t, thr[t].op, i), t)
                   /\ ret' = Ret(thr[t].op, i,
                                 IF l.found THEN "UnexpectedEof" ELSE "NotFound", << >>)
    /\ UNCHANGED <<disk, khf, wal, slots, alive, epochs, left>>
    /\ UNCHANGED concFrame

\* kms.khf_lock()
TakeKhf(t) ==
    /\ alive /\ thr[t].step = "khf"
    /\ mutex.khf = 0
    /\ mutex' = [mutex EXCEPT !.khf = t]
    /\ thr' = [thr EXCEPT ![t].step = "wal"]
    /\ UNCHANGED <<ids, disk, khf, wal, slots, alive, ret, epochs, left>>
    /\ UNCHANGED concFrame

\* kms.wal_lock(), with the KHF mutex held
TakeWal(t) ==
    /\ alive /\ thr[t].step = "wal"
    /\ mutex.wal = 0
    /\ mutex' = [mutex EXCEPT !.wal = t]
    /\ thr' = [thr EXCEPT ![t].step = "io"]
    /\ UNCHANGED <<ids, disk, khf, wal, slots, alive, ret, epochs, left>>
    /\ UNCHANGED concFrame

\* The mutexes with those of thread t released.
Released(t) == [m \in DOMAIN mutex |-> IF mutex[m] = t THEN 0 ELSE mutex[m]]

\* write_all of one unit: the key derived, the unit encrypted and written, the
\* extents compared, and the three mutexes released.
ThreadWrite(t) ==
    /\ alive /\ thr[t].op = "write_all" /\ thr[t].step = "io"
    /\ LET i == thr[t].id
           l == Lookup(i)
           f == l.dirs[l.sub][l.name]
       IN  \E off \in 0 .. Min({f.size, MaxFileUnits - 1}) :
           \E alloc \in AllocChoices(FreeClusters(ids), Need(i, off, 1)) :
              LET g == [clusters |-> f.clusters \o alloc, size |-> Max({f.size, off + 1})]
                  asserted == extents(f) \ extents(g) = {}
              IN  /\ ids' = [l.dirs EXCEPT ![l.sub] = PutFile(@, l.name, g)]
                  /\ disk' = WriteUnits(disk, khf, g.clusters, off, 1, {}, 1)
                  /\ wal' = wal \cup DeriveLog(g.clusters, off, {}, off)
                  /\ alive' = asserted
                  /\ ret' = Ret("write_all", i, IF asserted THEN "Ok" ELSE "panic", << >>)
                  /\ thr' = Return(Mark(t, "write_all", i), t)
    /\ mutex' = Released(t)
    /\ UNCHANGED <<khf, slots, epochs, left>>
    /\ UNCHANGED concFrame

\* read_exact of one unit, and the three mutexes released.
ThreadRead(t) ==
    /\ alive /\ thr[t].op = "read_exact" /\ thr[t].step = "io"
    /\ LET i == thr[t].id
           l == Lookup(i)
           f == l.dirs[l.sub][l.name]
       IN  \E off \in 0 .. (f.size - 1) :
              /\ ret' = Ret("read_exact", i, "Ok", ReadUnits(disk, khf, f.clusters, off, 1, {}))
              /\ wal' = wal \cup DeriveLog(f.clusters, off, {}, off)
              /\ thr' = Return(Mark(t, "read_exact", i), t)
    /\ mutex' = Released(t)
    /\ UNCHANGED <<ids, disk, khf, slots, alive, epochs, left>>
    /\ UNCHANGED concFrame

\* unlink_object: the extents collected under the file-system mutex, which is
\* released at the end of the block.
ThreadCollect(t) ==
    /\ alive /\ thr[t].op = "unlink_object" /\ thr[t].step = "fs"
    /\ mutex.fs = 0
    /\ LET i == thr[t].id
           l == Lookup(i)
       IN  /\ ids' = l.dirs
           /\ IF l.found
              THEN LET deleted == {UnlinkPageId(e) : e \in extents(l.dirs[l.sub][l.name])}
                   IN  /\ thr' = [Mark(t, "unlink_object", i) EXCEPT
                                     ![t].todo = deleted,
                                     ![t].step = IF deleted = {} THEN "remove" ELSE "khf"]
                       /\ ret' = ret
              ELSE /\ thr' = Return(Mark(t, "unlink_object", i), t)
                   /\ ret' = Ret("unlink_object", i, "NotFound", << >>)
    /\ UNCHANGED <<disk, khf, wal, slots, alive, epochs, left, mutex>>
    /\ UNCHANGED concFrame

\* unlink_object: khf.delete of the next extent's page id, both mutexes released.
ThreadDelete(t) ==
    /\ alive /\ thr[t].op = "unlink_object" /\ thr[t].step = "io"
    /\ LET id == Min(thr[t].todo)
       IN  /\ khf' = KhfDelete(khf, id)
           /\ wal' = wal \cup {<<"delete", id>>}
           /\ thr' = [thr EXCEPT ![t].todo = @ \ {id},
                                 ![t].logged = @ \cup {id},
                                 ![t].step = IF thr[t].todo = {id} THEN "remove" ELSE "khf"]
    /\ mutex' = Released(t)
    /\ UNCHANGED <<ids, disk, slots, alive, ret, epochs, left>>
    /\ UNCHANGED concFrame

\* unlink_object: the file-system mutex taken again and the entry removed.
ThreadRemove(t) ==
    /\ alive /\ thr[t].op = "unlink_object" /\ thr[t].step = "remove"
    /\ mutex.fs = 0
    /\ LET i == thr[t].id
           l == Lookup(i)
       IN  /\ ids' = IF l.found THEN [l.dirs EXCEPT ![l.sub] = RemoveFile(@, l.name)]
                     ELSE l.dirs
           /\ ret' = Ret("unlink_object", i, IF l.found THEN "Ok" ELSE "NotFound", << >>)
           /\ thr' = [Return(Mark(t, "unlink_object", i), t) EXCEPT
                         ![t].lost = @ \/ (l.found /\
                             ~(KeyPages(l.dirs[l.sub][l.name]) \subseteq thr[t].logged))]
    /\ UNCHANGED <<disk, khf, wal, slots, alive, epochs, left, mutex>>
    /\ UNCHANGED concFrame

\* advance_epoch: khf.update under the KHF and WAL mutexes, both released.
ThreadUpdate(t) ==
    /\ alive /\ thr[t].op = "advance_epoch" /\ thr[t].stage = "update" /\ thr[t].step = "io"
    /\ khf' = KhfUpdate(khf)
    /\ thr' = [thr EXCEPT ![t].todo = KhfUpdated(khf),
                          ![t].step = IF KhfUpdated(khf) = {} THEN "persist_khf"
                                      ELSE "page_read"]
    /\ mutex' = Released(t)
    /\ UNCHANGED <<ids, disk, wal, slots, alive, ret, epochs, left>>
    /\ UNCHANGED concFrame

\* The updated key advance_epoch's loop takes next.
NextKey(t) == CHOOSE u \in thr[t].todo : \A w \in thr[t].todo : u[1] <= w[1]

\* advance_epoch: the page read from the cloned device, no mutex held, and the old
\* key's keystream applied to the buffer.
ThreadReadPage(t) ==
    /\ alive /\ thr[t].op = "advance_epoch" /\ thr[t].step = "page_read"
    /\ thr' = [thr EXCEPT ![t].buf = PageBuffer(disk, NextKey(t)[1], NextKey(t)[2]),
                          ![t].stage = "page",
                          ![t].step = "khf"]
    /\ UNCHANGED <<ids, disk, khf, wal, slots, alive, ret, epochs, left, mutex>>
    /\ UNCHANGED concFrame

\* advance_epoch: get_symmetric_cipher under the KHF and WAL mutexes, both
\* released, and the new key's keystream applied to the buffer.
ThreadPageKey(t) ==
    /\ alive /\ thr[t].op = "advance_epoch" /\ thr[t].stage = "page" /\ thr[t].step = "io"
    /\ thr' = [thr EXCEPT ![t].buf = Reencrypted(thr[t].buf, khf, NextKey(t)[1]),
                          ![t].step = "page_write"]
    /\ wal' = wal \cup {<<"derive", NextKey(t)[1]>>}
    /\ mutex' = Released(t)
    /\ UNCHANGED <<ids, disk, khf, slots, alive, ret, epochs, left>>
    /\ UNCHANGED concFrame

\* advance_epoch: the buffer written back to the cloned device, no mutex held.
ThreadWritePage(t) ==
    /\ alive /\ thr[t].op = "advance_epoch" /\ thr[t].step = "page_write"
    /\ disk' = WritePage(disk, NextKey(t)[1], thr[t].buf)
    /\ thr' = [thr EXCEPT ![t].todo = @ \ {NextKey(t)},
                          ![t].buf = << >>,
                          ![t].stage = "persist",
                          ![t].step = IF thr[t].todo = {NextKey(t)} THEN "persist_khf"
                                      ELSE "page_read"]
    /\ UNCHANGED <<ids, khf, wal, slots, alive, ret, epochs, left, mutex>>
    /\ UNCHANGED concFrame

\* advance_epoch: let mut khf = kms.khf_lock()
ThreadPersistKhf(t) ==
    /\ alive /\ thr[t].op = "advance_epoch" /\ thr[t].step = "persist_khf"
    /\ mutex.khf = 0
    /\ mutex' = [mutex EXCEPT !.khf = t]
    /\ thr' = [thr EXCEPT ![t].step = "persist_fs", ![t].stage = "persist"]
    /\ UNCHANGED <<ids, disk, khf, wal, slots, alive, ret, epochs, left>>
    /\ UNCHANGED concFrame

\* advance_epoch: let fs = self.fs().lock().unwrap(), with the KHF mutex held
ThreadPersistFs(t) ==
    /\ alive /\ thr[t].op = "advance_epoch" /\ thr[t].step = "persist_fs"
    /\ mutex.fs = 0
    /\ mutex' = [mutex EXCEPT !.fs = t]
    /\ thr' = [thr EXCEPT ![t].step = "persist"]
    /\ UNCHANGED <<ids, disk, khf, wal, slots, alive, ret, epochs, left>>
    /\ UNCHANGED concFrame

\* advance_epoch: persist, wipe_old_khf_file and restore_khf, both mutexes released.
ThreadPersist(t) ==
    /\ alive /\ thr[t].op = "advance_epoch" /\ thr[t].step = "persist"
    /\ LET staged == [slots EXCEPT !.tmp = Persisted(khf)]
           r == restore_khf(wipe_old_khf_file(staged))
       IN  /\ slots' = r.s
           /\ alive' = r.ok
    /\ thr' = [Mark(t, "advance_epoch", 0) EXCEPT ![t].step = "clear"]
    /\ mutex' = Released(t)
    /\ UNCHANGED <<ids, disk, khf, wal, ret, epochs, left>>
    /\ UNCHANGED concFrame

\* advance_epoch: kms.wal_lock().clear() and Ok(()).
ThreadClear(t) ==
    /\ alive /\ thr[t].op = "advance_epoch" /\ thr[t].step = "clear"
    /\ mutex.wal = 0
    /\ wal' = {}
    /\ epochs' = epochs + 1
    /\ ret' = Ret("advance_epoch", 0, "Ok", << >>)
    /\ thr' = Return(thr, t)
    /\ UNCHANGED <<ids, disk, khf, slots, alive, left, mutex>>
    /\ UNCHANGED concFrame

InitConc == InitStore /\ InitIdle /\ left = MaxConcOps

\* One step of one thread.
NextConc ==
    \/ \E t \in Threads : Begin(t)
    \/ \E t \in Threads : ThreadCreate(t)
    \/ \E t \in Threads : ThreadOpen(t)
    \/ \E t \in Threads : TakeKhf(t)
    \/ \E t \in Threads : TakeWal(t)
    \/ \E t \in Threads : ThreadWrite(t)
    \/ \E t \in Threads : ThreadRead(t)
    \/ \E t \in Threads : ThreadCollect(t)
    \/ \E t \in Threads : ThreadDelete(t)
    \/ \E t \in Threads : ThreadRemove(t)
    \/ \E t \in Threads : ThreadUpdate(t)
    \/ \E t \in Threads : ThreadReadPage(t)
    \/ \E t \in Threads : ThreadPageKey(t)
    \/ \E t \in Threads : ThreadWritePage(t)
    \/ \E t \in Threads : ThreadPersistKhf(t)
    \/ \E t \in Threads : ThreadPersistFs(t)
    \/ \E t \in Threads : ThreadPersist(t)
    \/ \E t \in Threads : ThreadClear(t)

SpecConc == InitConc /\ [][NextConc]_vars

\* ------------------------------------------------------------ claims of Spec
\* What a read of units off .. off+n-1 of object i must return.
Expected(i, off, n) == [j \in 1 .. n |-> Plain(shadow[i][off + j].v)]

\* Every read_exact of object i over a range whose units all carry tag reads back
\* the values last written, however the device cuts the read.
ReadsBack(i, tag) ==
    LET l == Lookup(i)
        f == l.dirs[l.sub][l.name]
    IN  /\ l.found
        /\ f.size = Len(shadow[i])
        /\ \A off \in 0 .. (f.size - 1) : \A n \in 1 .. (f.size - off) :
              (\A j \in 1 .. n : shadow[i][off + j].tag = tag) =>
                 \A cuts \in Cuts(off, n) :
                    ReadUnits(disk, khf, f.clusters, off, n, cuts) = Expected(i, off, n)

C3_EpochDurability == \A i \in liveG : ReadsBack(i, "old")

\* C3 witness: right after advance_epoch and reopen a read_exact returned what was
\* written before them.
C3_Witness ==
    /\ phase = "durable"
    /\ ret.op = "read_exact" /\ ret.res = "Ok"
    /\ ret.id \in liveG
    /\ \A j \in 1 .. Len(ret.val) : shadow[ret.id][ret.off + j].tag = "old"
    /\ ret.val = Expected(ret.id, ret.off, Len(ret.val))

\* The keys derivable from the KHF in memory and from the one persisted in lethe/khf.
DerivableKeys ==
    {KeyOf(khf, p) : p \in PageIds} \cup
    (IF Loadable(slots.lethe) THEN {KeyOf(slots.lethe.pages[1], p) : p \in PageIds} ELSE {})

\* The cell decrypts to plaintext pt under one of the keys: it holds pt with no
\* keystream on it, or with the keystream of one of the keys alone.
Decrypts(cell, pt, keys) ==
    /\ cell.pt = pt
    /\ \/ cell.ks = {}
       \/ \E ks \in cell.ks : cell.ks = {ks} /\ ks[1] \in keys

\* C1: once unlink_object(id) and a later advance_epoch have returned, no key
\* derivable from the current KHF decrypts a page that backed id, and was not
\* rewritten since, to the plaintext written to id.
C1_SecureDeletion ==
    \A e \in erased : e.done => ~Decrypts(disk[e.x], e.pt, DerivableKeys)

\* ------------------------------------------------------------ claims of SpecNames
\* The step is a call of a public operation.
Called == left' = left - 1

\* C7: create_object(id) returns true exactly when id does not exist at the call
\* (never created, or unlinked since), false otherwise, and a call that returns
\* false changes neither the files nor the device.
C7_CreateReturn ==
    [][(Called /\ ret'.op = "create_object") =>
          /\ ret'.res = "Ok"
          /\ ret'.val = <<ret'.id \notin liveG>>
          /\ (ret'.val = <<FALSE>> => ids' = ids /\ disk' = disk)]_vars

\* C7 witness: create_object returned false for an object that holds data.
C7_Witness ==
    /\ ret.op = "create_object" /\ ret.val = <<FALSE>>
    /\ SizeOf(ret.id) > 0

\* C8: read_exact, write_all, disk_length and unlink_object on an id that does not
\* exist return NotFound, leave the id without a file and record no KHF deletion,
\* also after advance_epoch and reopen.
C8_NotFound ==
    [][\A i \in ObjIds :
          (/\ Called
           /\ ret'.op \in {"read_exact", "write_all", "disk_length", "unlink_object"}
           /\ ret'.id = i
           /\ i \notin liveG) =>
              /\ ret'.res = "NotFound"
              /\ ~(Lookup(i).found)'
              /\ khf'.deleted = khf.deleted
              /\ {e \in wal' : e[1] = "delete"} = {e \in wal : e[1] = "delete"}]_vars

\* C8 witness: read_exact returned NotFound for an id that was written, unlinked
\* and erased by an advance_epoch that a reopen followed.
C8_Witness ==
    /\ ret.op = "read_exact" /\ ret.res = "NotFound"
    /\ phase = "durable"
    /\ \E e \in erased : e.id = ret.id /\ e.done

\* C9: get_all_object_ids returns exactly the ids created and not unlinked since.
C9_AllIds ==
    ret.op = "get_all_object_ids" => ret.res = "Ok" /\ ret.val = <<liveG>>

\* C9 witness: get_all_object_ids returned with one object live and another
\* unlinked.
C9_Witness ==
    /\ ret.op = "get_all_object_ids"
    /\ Cardinality(liveG) = 1
    /\ \E e \in erased : e.id \notin liveG

\* ------------------------------------------------------------ claims of SpecCrash
\* C4: once a crash has happened and recovery has run to completion on the next
\* open, if some KHF generation had been persisted, lethe/khf exists and holds one
\* complete persisted generation, not a partly written or zeroed file.
C4_CrashSafety ==
    (pc = Idle /\ crashes > 0 /\ persisted # {}) =>
        Loadable(slots.lethe) /\ slots.lethe.pages[1] \in persisted

\* The slots in the steady state: tmp/khf and old/khf both absent.
Steady(s) == ~s.tmp.present /\ ~s.old.present

\* C10: from every state of the slots that a crash can leave, one run of
\* restore_khf ends without a panic in the steady state, and a second run right
\* after it changes nothing.
C10_RecoveryIdempotent ==
    LET r1 == restore_khf(slots)
    IN  r1.ok /\ Steady(r1.s) /\ restore_khf(r1.s) = r1

\* C10 witness: the process is down after a crash between the two renames, with
\* tmp/khf and old/khf both present, and recovery has both to clear.
C10_Witness ==
    /\ pc.op = "down" /\ crashes > 0
    /\ slots.tmp.present /\ slots.old.present
    /\ Steady(restore_khf(slots).s)

\* ------------------------------------------------------------ claims of SpecConc
\* C5: operations are atomic with respect to each other: no write_all to an
\* object takes effect between an unlink_object's collection of its extents and
\* its removal of the file, and no file-system operation falls between
\* advance_epoch's read of a page from the device and its write of that page.
C5_Atomicity == \A t \in Threads : ~thr[t].mixed

\* The mutex thread t is about to lock: "none" when its next step locks nothing.
Wanted(t) ==
    IF thr[t].step \in {"fs", "persist_fs", "remove"} THEN "fs"
    ELSE IF thr[t].step \in {"khf", "persist_khf"} THEN "khf"
    ELSE IF thr[t].step \in {"wal", "clear"} THEN "wal"
    ELSE "none"

\* Thread t waits for a mutex that thread u holds.
WaitsFor(t, u) == Wanted(t) # "none" /\ mutex[Wanted(t)] = u

\* C6: threads that call write_all, read_exact, unlink_object and advance_epoch
\* never reach a state where each waits for a mutex that the other holds.
C6_NoCircularWait ==
    \A t, u \in Threads : t # u => ~(WaitsFor(t, u) /\ WaitsFor(u, t))

\* ------------------------------------------------------------ claims of the rollover
\* C11: when advance_epoch has returned Ok, tmp/khf and old/khf are absent and
\* lethe/khf holds, complete, the in-memory KHF as this epoch's update left it,
\* with no deletion still pending in it.
C11_EpochPersisted ==
    (pc = Idle /\ ret.op = "advance_epoch" /\ ret.res = "Ok") =>
        /\ Steady(slots)
        /\ slots.lethe = Persisted(khf)
        /\ Loadable(slots.lethe)
        /\ khf.deleted = {}

\* C11 witness: a second advance_epoch returned Ok, over an earlier lethe/khf,
\* after an unlink_object whose page key the update rotated.
C11_Witness ==
    /\ ret.op = "advance_epoch" /\ ret.res = "Ok"
    /\ epochs = 2
    /\ \E p \in PageIds : khf.ver[p] > 0

\* C12: the assertion of write_all never fails: no write_all ends in its panic,
\* every extent (offset, length) of the file before the write being an extent of
\* the file after it.
C12_ExtentsKept == ret.op = "write_all" => ret.res # "panic"

\* C13: a failure to load lethe/khf is reported to the caller of open: open does
\* not return Ok over a lethe/khf that exists and cannot be loaded, with some
\* other KHF in its place.
C13_LoadFailureReported ==
    (pc = Idle /\ ret.op = "open" /\ ret.res = "Ok" /\ slots.lethe.present) =>
        Loadable(slots.lethe) /\ khf = slots.lethe.pages[1]

\* C14: an unlink_object that returns Ok records a KHF deletion, in the KHF and in
\* the WAL, for exactly the page ids (offset - 1024) / 4096 of the device offsets
\* that backed the object: the page ids write_all and read_exact derive keys
\* under.
C14_UnlinkPageIds ==
    [][\A i \in ObjIds :
          (Called /\ ret'.op = "unlink_object" /\ ret'.res = "Ok" /\ ret'.id = i) =>
              /\ khf'.deleted = khf.deleted \cup KeyPages(Lookup(i).dirs[NameOf[i][1]][NameOf[i]])
              /\ wal' = wal \cup {<<"delete", p>> :
                                     p \in KeyPages(Lookup(i).dirs[NameOf[i][1]][NameOf[i]])}]_vars

\* C15: unlink_object removes the file entry only after the deletion of every
\* page of the object has been logged: no unlink_object has removed a file that
\* had a page whose deletion it had not logged.
C15_DeleteBeforeRemove == \A t \in Threads : ~thr[t].lost

\* C16: roll-forward. Whenever tmp/khf is present, restore_khf ends without a
\* panic with lethe/khf holding what tmp/khf held and with tmp/khf and old/khf
\* absent; and in its course lethe/khf has been moved away before tmp/khf is
\* renamed, and tmp/khf has been renamed before old/khf is wiped.
C16_RollForward ==
    /\ slots.tmp.present =>
           LET r == restore_khf(slots)
           IN  r.ok /\ Steady(r.s) /\ r.s.lethe = slots.tmp
    /\ pc.at = "two" => slots.tmp.present /\ ~slots.lethe.present
    /\ pc.at = "wipe" => ~slots.tmp.present /\ slots.lethe.present

\* C16 witness: recovery after a crash has renamed tmp/khf to lethe/khf, which
\* holds the new generation, and is about to wipe the generation before it in
\* old/khf.
C16_Witness ==
    /\ At("open", "wipe") /\ crashes > 0
    /\ Loadable(slots.old) /\ Loadable(slots.lethe)
    /\ slots.lethe.pages[1].gen > slots.old.pages[1].gen

\* C17: when tmp/khf is absent and old/khf present, restore_khf ends without a
\* panic with old/khf absent and with lethe/khf holding what old/khf held if
\* lethe/khf was absent, and what lethe/khf held if it was present.
C17_OldAlone ==
    (~slots.tmp.present /\ slots.old.present) =>
        LET r == restore_khf(slots)
        IN  /\ r.ok /\ Steady(r.s)
            /\ r.s.lethe = IF slots.lethe.present THEN slots.lethe ELSE slots.old

\* C17 witness: restore_khf, run by open, has found tmp/khf absent and old/khf
\* present with a complete KHF in it, and is about to rename it to the absent
\* lethe/khf.
C17_Witness ==
    /\ At("open", "promote")
    /\ ~slots.tmp.present /\ ~slots.lethe.present
    /\ Loadable(slots.old)

\* C18: the entry of old/khf is removed only after every byte of every extent of
\* the file has been overwritten with zero: no block freed by a wipe still holds
\* a page of a superseded KHF.
C18_WipeComplete == slots.freed = {}

\* C19: the WAL loses entries at one step only, the clear that ends advance_epoch,
\* taken when the KHF has been persisted and promoted to lethe/khf and tmp/khf
\* and old/khf are gone; at every other step, a crash and the next open
\* included, the WAL keeps every entry it holds.
C19_WalClearedLast ==
    [][~(wal \subseteq wal') =>
          /\ At("epoch", "clear") /\ wal' = {}
          /\ Steady(slots) /\ slots.lethe = Persisted(khf)]_vars

\* C19 witness: advance_epoch has returned Ok and the WAL is empty, after a
\* write_all whose key derivation had been logged.
C19_Witness ==
    /\ pc = Idle /\ ret.op = "advance_epoch" /\ ret.res = "Ok"
    /\ wal = {}
    /\ \E x \in DiskOffsets : disk[x].pt # 0

\* C20: no thread holds the file-system mutex while it is inside a KHF operation
\* that logs to the WAL (derive_mut, delete, update), which it calls holding the
\* KHF and the WAL mutex.
C20_NoFsAcrossKhf ==
    \A t \in Threads :
        (thr[t].step = "io" /\ mutex.khf = t /\ mutex.wal = t) => mutex.fs # t

\* ------------------------------------------------------------ claims of the re-encryption
\* The cell at device offset x with the keystream of cipher removed, as read_exact
\* and write_all apply it to a fragment that starts at x.
Decrypted(cell, cipher) == Xor(cell, Keystream(cipher, 0))

\* C21: an advance_epoch rewrites exactly the device offsets of the page ids that
\* KHF.update returns, and each of them decrypts after the rewrite, under the key
\* the KHF now derives for its page id, to what it decrypted to before under the
\* old key update returned; every other offset is left as it was.
C21_Reencryption ==
    [][(Called /\ ret'.op = "advance_epoch") =>
          \A x \in DiskOffsets :
              IF disk_offset_to_id(x) \in khf.deleted
              THEN Decrypted(disk'[x], get_symmetric_cipher(khf', x)) =
                   Decrypted(disk[x], get_symmetric_cipher_from_key(
                                          x, KeyOf(khf, disk_offset_to_id(x))))
              ELSE disk'[x] = disk[x]]_vars

\* C21 witness: the first advance_epoch has returned Ok and rotated the key of a
\* page that a live object holds data in, written since the last open: a page
\* freed by an unlink_object and used again; the data reads as plaintext under the
\* key the KHF derives now.
C21_Witness ==
    /\ ret.op = "advance_epoch" /\ ret.res = "Ok" /\ epochs = 1
    /\ \E i \in liveG :
           /\ Lookup(i).found
           /\ LET f == Lookup(i).dirs[NameOf[i][1]][NameOf[i]]
                  x == Phys(f.clusters, 0)
              IN  /\ f.size > 0
                  /\ shadow[i][1].tag = "cur"
                  /\ khf.ver[disk_offset_to_id(x)] = 1
                  /\ Decrypted(disk[x], get_symmetric_cipher(khf, x)) = Plain(shadow[i][1].v)

\* C22: every keystream byte applied to a device offset O was taken from the
\* cipher of page id (O - 1024) / 4096 at keystream position O mod 4096.
C22_SeekPosition ==
    \A x \in DiskOffsets : \A ks \in disk[x].ks :
        ks[2] = disk_offset_to_id(x) /\ ks[3] = x % PAGE_SIZE

\* C23: recovery never aborts. In every state reached from a new volume by open,
\* advance_epoch and crashes at any step, recovery included, lethe/khf, tmp/khf
\* and old/khf are never all three present, no unwrap of restore_khf has
\* panicked, and every rename recovery is about to make finds its source present
\* and its destination absent, but for the rename of old/khf, which may find
\* lethe/khf present (AlreadyExists, handled), and step_one's, which may find
\* lethe/khf absent (NotFound, handled).
C23_RecoveryNeverAborts ==
    /\ ~(slots.lethe.present /\ slots.tmp.present /\ slots.old.present)
    /\ pc # Panicked
    /\ pc.at = "one" => (slots.lethe.present => ~slots.old.present)
    /\ pc.at = "two" => slots.tmp.present /\ ~slots.lethe.present
    /\ pc.at = "promote" => slots.old.present
    /\ restore_khf(slots).ok

\* C23 witness: after two crashes, the second one during the recovery that
\* followed the first or during a later advance_epoch, recovery finds tmp/khf and
\* old/khf both present and is about to rename tmp/khf to lethe/khf.
C23_Witness ==
    /\ At("open", "two") /\ crashes = 2
    /\ slots.tmp.present /\ slots.old.present


\* The KHF the next ObjectStore::open ends up with from the slots as they are:
\* restore_khf, then Kms::open.
Reloaded == open_khf(restore_khf(slots).s, insts + 1)

\* The process dies inside advance_epoch with keys rotated in memory that no
\* generation on its way to lethe/khf holds: the next open loads the generation
\* before the one in memory.
CrashBeforePromotion ==
    /\ pc.op = "epoch" /\ pc'.op = "down"
    /\ restore_khf(slots).ok /\ Loadable(restore_khf(slots).s.lethe)
    /\ Reloaded.inst = khf.inst /\ Reloaded.gen < khf.gen
    /\ \E id \in PageIds : Reloaded.ver[id] < khf.ver[id]

\* C24: when the process dies inside advance_epoch after pages were re-encrypted in
\* place and before the new KHF has become lethe/khf, every unit of every live
\* object that decrypted to the value last written under the KHF in memory still
\* decrypts to it under the key the KHF loaded by the next open derives for its
\* page id.
C24_ReencryptionCrashSafe ==
    [][CrashBeforePromotion =>
          \A i \in liveG :
              Lookup(i).found =>
                  LET f == Lookup(i).dirs[NameOf[i][1]][NameOf[i]]
                  IN  \A L \in 0 .. f.size - 1 :
                          LET x == Phys(f.clusters, L)
                          IN  Decrypted(disk[x], get_symmetric_cipher(khf, x)) =
                                  Plain(shadow[i][L + 1].v)
                              => Decrypted(disk[x], get_symmetric_cipher(Reloaded, x)) =
                                     Plain(shadow[i][L + 1].v)]_vars
====
